---- MODULE Spec2Model ----
(***************************************************************************)
(* Model of src/app.py: the SofascoreDartsFetcher request/retry loop       *)
(* (_make_request), session set-up (_init_client, _visit_homepage) and the *)
(* per-date fetch loop of main.                                            *)
(*                                                                         *)
(* Time is counted in half seconds, so that every sleep the code computes  *)
(* from its literals (2.0, 0.5, 1.5, 1, 3, 60) is an integer.              *)
(***************************************************************************)
EXTENDS Integers, Sequences, FiniteSets, TLC

(***************************************************************************)
(* Program constants                                                       *)
(***************************************************************************)
\* _make_request(self, url, max_retries: int = 3)
MaxRetries == 3
\* SofascoreDartsFetcher(delay=2.0), in half seconds
Delay == 4
\* random.uniform(0.5, 1.5) before the first attempt, in half seconds
JitterFirstMin == 1
JitterFirstMax == 3
\* random.uniform(1, 3) before a retry, in half seconds
JitterRetryMin == 2
JitterRetryMax == 6
\* response.headers.get('retry-after', 60): the default, in seconds
DefaultRetryAfter == 60
\* random.uniform(1.5, 2.5) after the homepage visit, in half seconds
HomeSleepMin == 3
HomeSleepMax == 5
\* half seconds per second
TicksPerSecond == 2

(***************************************************************************)
(* Bounds of the model                                                     *)
(***************************************************************************)
\* largest retry-after value (seconds) a 429 response carries in the model
MaxRetryAfter == 5
\* number of dates of the largest date range
NumDates == 2
\* largest number of events in one date's schedule payload
MaxEvents == 2

(***************************************************************************)
(* JSON payloads.  A payload is a Python dict; the model keeps the keys    *)
(* the code reads.  `truthy` is the dict's truth value (non-empty).        *)
(***************************************************************************)
NoStatistics == << >>

\* Python None as a _make_request result / parsed body
NoneValue ==
    [isNone |-> TRUE, truthy |-> FALSE, hasEvents |-> FALSE, events |-> << >>,
     hasStatistics |-> FALSE, statistics |-> NoStatistics]

\* the empty JSON object {}
EmptyObject ==
    [isNone |-> FALSE, truthy |-> FALSE, hasEvents |-> FALSE, events |-> << >>,
     hasStatistics |-> FALSE, statistics |-> NoStatistics]

\* a JSON object with some key, but neither 'events' nor 'statistics'
OtherObject ==
    [isNone |-> FALSE, truthy |-> TRUE, hasEvents |-> FALSE, events |-> << >>,
     hasStatistics |-> FALSE, statistics |-> NoStatistics]

\* {"events": [...]}
SchedulePayload(evs) ==
    [isNone |-> FALSE, truthy |-> TRUE, hasEvents |-> TRUE, events |-> evs,
     hasStatistics |-> FALSE, statistics |-> NoStatistics]

\* {"statistics": [...]}
StatisticsPayload(periods) ==
    [isNone |-> FALSE, truthy |-> TRUE, hasEvents |-> FALSE, events |-> << >>,
     hasStatistics |-> TRUE, statistics |-> periods]

(***************************************************************************)
(* The fetcher object.  self.client is the current httpx.Client instance.  *)
(* `visited` records whether the homepage was fetched with status 200 on   *)
(* the current instance (the session cookies live in the client), `got403` *)
(* whether the current instance has received a 403 response.               *)
(***************************************************************************)
\* _init_client: close the old client if any, then self.client = httpx.Client(...)
InitClient(f) == [visited |-> FALSE, got403 |-> FALSE]

\* __init__: self.delay = delay; self.client = None; self._init_client()
NewFetcher == InitClient([visited |-> FALSE, got403 |-> FALSE])

\* outcomes of self.client.get('https://www.sofascore.com/')
HomeOutcomes == {"ok", "not200", "raise"}

\* _visit_homepage: return response.status_code == 200, False on an exception
VisitHomepageReturn(home) == home = "ok"

VisitHomepage(f, home) == [f EXCEPT !.visited = VisitHomepageReturn(home)]

\* the fetcher states a _make_request call can start in
Fetchers == [visited : BOOLEAN, got403 : BOOLEAN]

(***************************************************************************)
(* Event log of one _make_request call.  Client instances are numbered     *)
(* from 0 (the instance the call starts with) in the order they are made.  *)
(***************************************************************************)
\* retry-after header: -1 when absent, -2 when int() cannot parse it
RetryAfterAbsent == -1
RetryAfterBad == -2

LogEntry(ev, c, k, t, s) ==
    [ev |-> ev, client |-> c, attempt |-> k, t |-> t, status |-> s,
     hdr |-> RetryAfterAbsent, body |-> NoneValue]

\* what the log keeps of a response: its status, 429's header, 200's body
StatusOf(resp) ==
    IF resp.kind = "200" THEN (IF resp.parses THEN "200" ELSE "200bad") ELSE resp.kind

GetEntry(c, k, resp) ==
    [LogEntry("get", c, k, 0, StatusOf(resp)) EXCEPT !.hdr = resp.hdr, !.body = resp.body]

\* _visit_homepage sleeps only when the GET returned (no exception)
HomeLog(c, k, home, hs) ==
    IF home = "raise"
    THEN << LogEntry("home", c, k, 0, home) >>
    ELSE << LogEntry("home", c, k, 0, home), LogEntry("sleep_home", c, k, hs, home) >>

(***************************************************************************)
(* _make_request: one iteration of `for attempt in range(max_retries)`     *)
(***************************************************************************)
\* faulty variant of WaitTime: a linear backoff, delay * attempt
WaitTimeLinear(attempt, jitter) ==
    IF attempt > 0 THEN Delay * attempt + jitter ELSE Delay + jitter

\* wait_time = self.delay * (2 ** attempt) + random.uniform(1, 3)   (attempt > 0)
\* time.sleep(self.delay + random.uniform(0.5, 1.5))                (attempt = 0)
WaitTime(attempt, jitter) ==
    IF attempt > 0 THEN Delay * (2 ^ attempt) + jitter ELSE Delay + jitter

JitterFirst == JitterFirstMin .. JitterFirstMax
JitterRetry == JitterRetryMin .. JitterRetryMax
HomeSleeps == HomeSleepMin .. HomeSleepMax

\* the request state at the start of the for loop
StartRequest(f) ==
    [attempt |-> 0, done |-> FALSE, result |-> NoneValue, log |-> << >>,
     inst |-> 0, f |-> f]

\* `continue`, or the end of the loop body: next attempt, or `return None`
\* after the loop when the range is exhausted
NextAttempt(rs) ==
    [rs EXCEPT !.attempt = rs.attempt + 1,
               !.done = (rs.attempt + 1 >= MaxRetries)]

\* faulty variant of OnException: an exception before the last attempt
\* re-establishes the session as a 403 does
OnExceptionRefresh(rs) ==
    IF rs.attempt = MaxRetries - 1
    THEN [rs EXCEPT !.done = TRUE, !.result = NoneValue]
    ELSE NextAttempt([rs EXCEPT
             !.f = VisitHomepage(InitClient(rs.f), "ok"),
             !.inst = rs.inst + 1,
             !.log = @ \o << LogEntry("close", rs.inst, rs.attempt, 0, "-"),
                             LogEntry("new", rs.inst + 1, rs.attempt, 0, "-") >>
                       \o HomeLog(rs.inst + 1, rs.attempt, "ok", HomeSleepMin)])

\* the three except clauses: return None on the last attempt, else go on
OnException(rs) ==
    IF rs.attempt = MaxRetries - 1
    THEN [rs EXCEPT !.done = TRUE, !.result = NoneValue]
    ELSE NextAttempt(rs)

\* faulty variant of OnSuccess: the payload is kept but the loop goes on
OnSuccessKeepGoing(rs, resp) ==
    IF resp.parses
    THEN NextAttempt([rs EXCEPT !.result = resp.body])
    ELSE OnException(rs)

\* status 200: data = response.json(); return data; a body that does not
\* parse raises
OnSuccess(rs, resp) ==
    IF resp.parses
    THEN [rs EXCEPT !.done = TRUE, !.result = resp.body]
    ELSE OnException(rs)

\* status 429: retry_after = int(headers.get('retry-after', 60));
\* time.sleep(retry_after); continue
RetryAfter(hdr) == IF hdr = RetryAfterAbsent THEN DefaultRetryAfter ELSE hdr

On429(rs, resp) ==
    IF resp.hdr = RetryAfterBad
    THEN OnException(rs)
    ELSE NextAttempt([rs EXCEPT !.log = Append(@,
             LogEntry("sleep_429", rs.inst, rs.attempt,
                      RetryAfter(resp.hdr) * TicksPerSecond, "429"))])

\* faulty variant of On403: the session is not re-established
On403NoRefresh(rs, resp) == NextAttempt(rs)

\* status 403: if attempt < max_retries - 1: _init_client(); _visit_homepage()
\* then continue

On403(rs, resp) ==
    IF rs.attempt < MaxRetries - 1
    THEN NextAttempt([rs EXCEPT
             !.f = VisitHomepage(InitClient(rs.f), resp.home),
             !.inst = rs.inst + 1,
             !.log = @ \o << LogEntry("close", rs.inst, rs.attempt, 0, "403"),
                             LogEntry("new", rs.inst + 1, rs.attempt, 0, "403") >>
                       \o HomeLog(rs.inst + 1, rs.attempt, resp.home, resp.hs)])
    ELSE NextAttempt(rs)

\* any other status: response.raise_for_status() raises HTTPStatusError except
\* for a 2xx status, after which the loop body simply ends
OnOtherStatus(rs, resp) ==
    IF resp.kind = "2xx" THEN NextAttempt(rs) ELSE OnException(rs)

\* dispatch on the outcome of self.client.get(url)
OnResponse(rs, resp) ==
    CASE resp.kind = "neterr" -> OnException(rs)
      [] resp.kind = "429"    -> On429(rs, resp)
      [] resp.kind = "403"    -> On403(rs, resp)
      [] resp.kind = "200"    -> OnSuccess(rs, resp)
      [] OTHER                -> OnOtherStatus(rs, resp)

\* the sleep before the request, the request, and the handling of its response
Iteration(rs, jitter, resp) ==
    OnResponse([rs EXCEPT
                   !.log = @ \o << LogEntry("sleep_backoff", rs.inst, rs.attempt,
                                            WaitTime(rs.attempt, jitter), "-"),
                                   GetEntry(rs.inst, rs.attempt, resp) >>,
                   !.f.got403 = @ \/ resp.kind = "403"],
               resp)

(***************************************************************************)
(* Outcomes of self.client.get(url): a network error, or a response        *)
(***************************************************************************)
Response(kind, parses, body, hdr, home, hs) ==
    [kind |-> kind, parses |-> parses, body |-> body, hdr |-> hdr, home |-> home, hs |-> hs]

Responses(bodies, hdrs, homes, hsleeps) ==
    {Response(k, FALSE, NoneValue, RetryAfterAbsent, "ok", HomeSleepMin) :
        k \in {"neterr", "200", "4xx5xx", "2xx"}}
    \cup {Response("200", TRUE, b, RetryAfterAbsent, "ok", HomeSleepMin) : b \in bodies}
    \cup {Response("429", FALSE, NoneValue, h, "ok", HomeSleepMin) : h \in hdrs}
    \cup {Response("403", FALSE, NoneValue, RetryAfterAbsent, "ok", s) : s \in hsleeps}
    \cup {Response("403", FALSE, NoneValue, RetryAfterAbsent, h, HomeSleepMin) :
            h \in homes \ {"ok"}}

\* the inputs of the request-level specification
RequestBodies == {EmptyObject, OtherObject, SchedulePayload(<< 11 >>)}
RetryAfterHeaders == {RetryAfterAbsent, RetryAfterBad, 0, MaxRetryAfter}
RequestResponses == Responses(RequestBodies, RetryAfterHeaders, HomeOutcomes, HomeSleeps)

(***************************************************************************)
(* _make_request as a whole: the request states the loop can end in        *)
(***************************************************************************)
\* after[k]: the states after at most k iterations of the loop
Runs(rs, jf, jr, resps) ==
    LET after[k \in 0 .. MaxRetries] ==
            IF k = 0
            THEN {rs}
            ELSE UNION {IF r.done
                        THEN {r}
                        ELSE {Iteration(r, j, resp) :
                                 j \in (IF r.attempt > 0 THEN jr ELSE jf), resp \in resps} :
                        r \in after[k - 1]}
    IN  after[MaxRetries]

\* The batch-level specification does not look at the sleeps of a call, and
\* a call hands the body of its 200 response on unread; its calls are run
\* with one jitter value, one retry-after header and one body, which stands
\* for whichever payload the service sends.
BatchResponses ==
    Responses({OtherObject}, {RetryAfterAbsent}, HomeOutcomes, {HomeSleepMin})

\* what the log of a call says about the session: the number of clients the
\* call made (_init_client), the number of homepage visits it made
\* (_visit_homepage), and whether one of its requests was answered 403
LogNewClients(log) == Cardinality({i \in DOMAIN log : log[i].ev = "new"})
LogHomeVisits(log) == Cardinality({i \in DOMAIN log : log[i].ev = "home"})
LogSaw403(log) == \E i \in DOMAIN log : log[i].ev = "get" /\ log[i].status = "403"

\* a request of the call went out on a client that had received a 403: the
\* first request when the call starts with such a client (client 0), or a
\* request after a 403 of the same call on the same client
LogReused403(from, log) ==
    \/ from.got403 /\ \E j \in DOMAIN log : log[j].ev = "get" /\ log[j].client = 0
    \/ \E i, j \in DOMAIN log :
          /\ i < j
          /\ log[i].ev = "get" /\ log[i].status = "403"
          /\ log[j].ev = "get" /\ log[j].client = log[i].client

\* for each fetcher state `from` a call can start in: how the call can end
\* (did it return a payload, the fetcher it leaves behind, and what its log
\* says about the session)
RequestOutcomes ==
    UNION {{[from |-> f, ok |-> ~r.result.isNone, f |-> r.f,
             clients |-> LogNewClients(r.log), homes |-> LogHomeVisits(r.log),
             saw403 |-> LogSaw403(r.log), reused403 |-> LogReused403(f, r.log)] :
               r \in Runs(StartRequest(f), {JitterFirstMin}, {JitterRetryMin}, BatchResponses)} :
           f \in Fetchers}

\* result = self._make_request(url), the service answering 200 with one of `bodies`
MakeRequest(f, bodies) ==
    {[result |-> NoneValue, f |-> o.f] : o \in {x \in RequestOutcomes : x.from = f /\ ~x.ok}}
    \cup {[result |-> b, f |-> o.f] :
             o \in {x \in RequestOutcomes : x.from = f /\ x.ok}, b \in bodies}

(***************************************************************************)
(* Payloads of the upstream API in the batch-level specification.  The     *)
(* events the service lists for the d-th date of the range have the ids    *)
(* 10*d + 1 .. 10*d + n, listed in descending order.                       *)
(***************************************************************************)
EventId(d, k) == 10 * d + k
DateOf(id) == id \div 10

ScheduledEvents(d, n) == [k \in 1 .. n |-> [id |-> EventId(d, n + 1 - k)]]

ScheduleBodies(d) ==
    {EmptyObject, OtherObject} \cup {SchedulePayload(ScheduledEvents(d, n)) : n \in 0 .. MaxEvents}

Item(key, home, away) == [key |-> key, home |-> home, away |-> away]

\* the statistics of event `id`: a first-period block and the "ALL" block
StatisticsOf(id) ==
    StatisticsPayload(
        << [period |-> "1ST", groups |-> << << Item("Thrown180", 0, 0) >> >>],
           [period |-> "ALL", groups |-> << << Item("Thrown180", id, 1) >>,
                                            << Item("Average3Darts", 95, 90),
                                               Item("Thrown180", id, 2) >> >>] >>)

StatisticsBodies(id) == {OtherObject, StatisticsOf(id)}

(***************************************************************************)
(* extract_event_ids, parse_statistics and the updates of main's loop      *)
(***************************************************************************)
\* extract_event_ids: [] for None, {} and a payload without 'events';
\* else one row per entry of 'events', in the payload's order
ExtractEventIds(scheduled_data) ==
    IF ~scheduled_data.truthy \/ ~scheduled_data.hasEvents
    THEN << >>
    ELSE [i \in DOMAIN scheduled_data.events |-> [id |-> scheduled_data.events[i].id]]

\* faulty variants of Extend: all_events = events, and events put in front
ExtendAssign(all, events) == events
ExtendFront(all, events) == events \o all

\* all_events.extend(events)
Extend(all, events) == all \o events

\* a Python dict as a function; {} is the function with the empty domain
EmptyDict == [k \in {} |-> 0]
DictSet(d, k, v) == [x \in DOMAIN d \cup {k} |-> IF x = k THEN v ELSE d[x]]

\* stats_dict[key] = {...} for every item of every group, in order
RECURSIVE PutItems(_, _)
PutItems(d, items) ==
    IF items = << >> THEN d
    ELSE PutItems(DictSet(d, Head(items).key,
                          [home |-> Head(items).home, away |-> Head(items).away]),
                  Tail(items))

RECURSIVE PutGroups(_, _)
PutGroups(d, groups) ==
    IF groups = << >> THEN d
    ELSE PutGroups(PutItems(d, Head(groups)), Tail(groups))

RECURSIVE PutPeriods(_, _)
PutPeriods(d, periods) ==
    IF periods = << >> THEN d
    ELSE PutPeriods(IF Head(periods).period = "ALL"
                    THEN PutGroups(d, Head(periods).groups) ELSE d,
                    Tail(periods))

\* parse_statistics: None without a 'statistics' field, else the dict of the
\* items of the period "ALL"
ParsedNone == [isNone |-> TRUE, dict |-> EmptyDict]

ParseStatistics(stats_data) ==
    IF ~stats_data.truthy \/ ~stats_data.hasStatistics
    THEN ParsedNone
    ELSE [isNone |-> FALSE, dict |-> PutPeriods(EmptyDict, stats_data.statistics)]

\* faulty variant of StoreStats: the dict is replaced, not updated
StoreStatsOverwrite(stats, id, stats_data) ==
    IF stats_data.truthy
    THEN DictSet(EmptyDict, id, ParseStatistics(stats_data))
    ELSE stats

\* if stats_data: all_stats[event['id']] = parse_statistics(stats_data)
StoreStats(stats, id, stats_data) ==
    IF stats_data.truthy
    THEN DictSet(stats, id, ParseStatistics(stats_data))
    ELSE stats

(***************************************************************************)
(* State                                                                   *)
(***************************************************************************)
VARIABLES
    rq,          \* the _make_request call in progress (request-level specification)
    pc,          \* position of the script run of main: "start" (top of the first
                 \* run), "idle" (at the Fetch Data button, session present),
                 \* "loop" and "stats" (the batch), "done" (the run has ended),
                 \* "rerun" (st.rerun() has ended the run, the next one is due)
    fetcher,     \* st.session_state.fetcher
    bootstrap,   \* what the bootstrap _visit_homepage returned: "none", "true", "false"
    ui,          \* the widgets as this run reads them: auto_refresh, Fetch Data
    last_fetch_time, \* st.session_state.last_fetch_time: "none", or "set"
    clock,       \* where datetime.now() stands against last_fetch_time
    settings,    \* the sidebar's settings: number of dates of the range, show_stats
    idx,         \* position of the date loop in date_range (1-based)
    events,      \* the rows of the current date
    evIdx,       \* position of the statistics loop in events (1-based)
    all_events,  \* main's all_events
    all_stats,   \* main's all_stats
    stored,      \* st.session_state.events / .stats
    apiSent,     \* an API request was sent in this batch
    sched,       \* per date: how its schedule fetch ended, and its payload's size
    statsGot,    \* per event id: how its statistics fetch ended
    sess         \* history of the session, kept when `on`: clients made,
                 \* homepage visits made, a 403 received, a request sent on a
                 \* client that had received a 403, batches started

vars == << rq, pc, fetcher, bootstrap, ui, last_fetch_time, clock, settings, idx, events,
           evIdx, all_events, all_stats, stored, apiSent, sched, statsGot, sess >>

mainVars == << pc, fetcher, bootstrap, ui, last_fetch_time, clock, settings, idx, events,
               evIdx, all_events, all_stats, stored, apiSent, sched, statsGot, sess >>

Pending == [status |-> "pending", n |-> 0]

\* counting in the session history: "none", "one", "many" (two or more)
CountUp(c, n) == IF n = 0 THEN c ELSE IF c = "none" /\ n = 1 THEN "one" ELSE "many"

NoHistory(on) ==
    [on |-> on, clients |-> "none", homes |-> "none", saw403 |-> FALSE,
     reused403 |-> FALSE, batches |-> "none"]

\* the history after the fetcher is created and the homepage visited
TrackCreate(s) ==
    IF s.on THEN [s EXCEPT !.clients = CountUp(@, 1), !.homes = CountUp(@, 1)] ELSE s

\* the history after a batch is started
TrackBatch(s) == IF s.on THEN [s EXCEPT !.batches = CountUp(@, 1)] ELSE s

\* the history after a _make_request call whose log is summed up in x
TrackCall(s, x) ==
    [s EXCEPT !.clients = CountUp(@, x.clients),
              !.homes = CountUp(@, x.homes),
              !.saw403 = @ \/ x.saw403,
              !.reused403 = @ \/ x.reused403]

\* the histories after a call that started with fetcher `from` and ended as
\* o: one for each way the call can have gone
Histories(s, from, o) ==
    IF s.on
    THEN {TrackCall(s, x) :
             x \in {y \in RequestOutcomes :
                       y.from = from /\ y.f = o.f /\ y.ok = ~o.result.isNone}}
    ELSE {s}

\* (datetime.now() - last_fetch_time).seconds is the seconds component of the
\* difference and starts again from 0 with every full day.  "fresh": less
\* than refresh_interval has passed; "due": refresh_interval or more has
\* passed and the seconds component is refresh_interval or more; "wrapped":
\* one or more days have passed and the seconds component is below
\* refresh_interval.
ClockTick(clk) == IF clk = "due" THEN "wrapped" ELSE "due"

\* time_since_fetch >= settings['refresh_interval']
IntervalElapsed(clk) == clk = "due"

\* the auto refresh logic reaches st.rerun(): auto_refresh is on (its
\* refresh_interval is 30 or more), last_fetch_time is set, the interval elapsed
RerunDue(u, lft, clk) == u.auto_refresh /\ lft = "set" /\ IntervalElapsed(clk)

\* fetch_button at `if fetch_button:`, in a run that st.rerun() did not end:
\* the button was clicked, or auto_refresh is on and last_fetch_time is None
FetchButton(u, lft) == u.clicked \/ (u.auto_refresh /\ lft = "none")

InitMain ==
    /\ pc = "start"
    /\ fetcher = NewFetcher
    /\ bootstrap = "none"
    /\ ui = [auto_refresh |-> FALSE, clicked |-> FALSE]
    /\ last_fetch_time = "none"
    /\ clock = "fresh"
    /\ settings = [ndates |-> 0, show_stats |-> FALSE]
    /\ idx = 1
    /\ events = << >>
    /\ evIdx = 1
    /\ all_events = << >>
    /\ all_stats = EmptyDict
    /\ stored = [has |-> FALSE, events |-> << >>, stats |-> EmptyDict]
    /\ apiSent = FALSE
    /\ sched = [d \in 1 .. NumDates |-> Pending]
    /\ statsGot = EmptyDict

(***************************************************************************)
(* Request-level specification: one call of _make_request, one action per  *)
(* loop iteration.                                                         *)
(***************************************************************************)
InitRequest ==
    /\ InitMain
    /\ sess = NoHistory(FALSE)
    /\ \E f \in Fetchers : rq = StartRequest(f)

FirstAttempt ==
    /\ ~rq.done
    /\ rq.attempt = 0
    /\ \E j \in JitterFirst, resp \in RequestResponses : rq' = Iteration(rq, j, resp)
    /\ UNCHANGED mainVars

Retry ==
    /\ ~rq.done
    /\ rq.attempt > 0
    /\ \E j \in JitterRetry, resp \in RequestResponses : rq' = Iteration(rq, j, resp)
    /\ UNCHANGED mainVars

NextRequest == FirstAttempt \/ Retry

SpecRequest == InitRequest /\ [][NextRequest]_vars

(***************************************************************************)
(* The script runs of main.  Streamlit runs the script from the top once   *)
(* when the session opens, again after every interaction with a widget,    *)
(* and again when st.rerun() is called.                                    *)
(***************************************************************************)
\* the batch-level specification keeps no history of the session
Init ==
    /\ InitMain
    /\ sess = NoHistory(FALSE)
    /\ rq = StartRequest(NewFetcher)

\* if 'fetcher' not in st.session_state: create it and visit the homepage;
\* the value _visit_homepage returns is dropped
InitSession ==
    /\ pc = "start"
    /\ \E home \in HomeOutcomes :
          /\ fetcher' = VisitHomepage(NewFetcher, home)
          /\ bootstrap' = IF VisitHomepageReturn(home) THEN "true" ELSE "false"
    /\ sess' = TrackCreate(sess)
    /\ pc' = "idle"
    /\ UNCHANGED << rq, ui, last_fetch_time, clock, settings, idx, events, evIdx,
                    all_events, all_stats, stored, apiSent, sched, statsGot >>

\* the run does not fetch: fetch_button is False and st.rerun() is not
\* called; the script runs to its end
NoFetch ==
    /\ pc = "idle"
    /\ ~RerunDue(ui, last_fetch_time, clock)
    /\ ~FetchButton(ui, last_fetch_time)
    /\ pc' = "done"
    /\ UNCHANGED << rq, fetcher, bootstrap, ui, last_fetch_time, clock, settings, idx,
                    events, evIdx, all_events, all_stats, stored, apiSent, sched,
                    statsGot, sess >>

\* if time_since_fetch >= settings['refresh_interval']: fetch_button = True;
\* st.rerun() -- st.rerun() ends the run there, the assignment is lost
AutoRerun ==
    /\ pc = "idle"
    /\ RerunDue(ui, last_fetch_time, clock)
    /\ ui' = [ui EXCEPT !.clicked = FALSE]
    /\ pc' = "rerun"
    /\ UNCHANGED << rq, fetcher, bootstrap, last_fetch_time, clock, settings, idx,
                    events, evIdx, all_events, all_stats, stored, apiSent, sched,
                    statsGot, sess >>

\* the run st.rerun() asked for, down to the button: 'fetcher' and
\* 'last_fetch_time' are in st.session_state, the button returns False
Restart ==
    /\ pc = "rerun"
    /\ pc' = "idle"
    /\ UNCHANGED << rq, fetcher, bootstrap, ui, last_fetch_time, clock, settings, idx,
                    events, evIdx, all_events, all_stats, stored, apiSent, sched,
                    statsGot, sess >>

\* the user acts on a widget after a run has ended; the run this starts,
\* down to the button
InteractWith(autos, clicks) ==
    /\ pc = "done"
    /\ \E a \in autos, c \in clicks : ui' = [auto_refresh |-> a, clicked |-> c]
    /\ pc' = "idle"
    /\ UNCHANGED << rq, fetcher, bootstrap, last_fetch_time, clock, settings, idx,
                    events, evIdx, all_events, all_stats, stored, apiSent, sched,
                    statsGot, sess >>

Interact == InteractWith(BOOLEAN, BOOLEAN)

\* the first click on Fetch Data, with auto refresh off
ClickFetch == ~stored.has /\ InteractWith({FALSE}, {TRUE})

\* time passes between a fetch and a later reading of the clock
Tick ==
    /\ last_fetch_time = "set"
    /\ clock' = ClockTick(clock)
    /\ UNCHANGED << rq, pc, fetcher, bootstrap, ui, last_fetch_time, settings, idx,
                    events, evIdx, all_events, all_stats, stored, apiSent, sched,
                    statsGot, sess >>

\* if fetch_button: st.session_state.last_fetch_time = datetime.now();
\* all_events = []; all_stats = {}; date_range = pd.date_range(start, end),
\* a range of one of `ns` dates
StartBatchOf(ns) ==
    /\ pc = "idle"
    /\ ~RerunDue(ui, last_fetch_time, clock)
    /\ FetchButton(ui, last_fetch_time)
    /\ \E n \in ns, show \in BOOLEAN :
          settings' = [ndates |-> n, show_stats |-> show]
    /\ last_fetch_time' = "set"
    /\ clock' = "fresh"
    /\ ui' = [ui EXCEPT !.clicked = FALSE]
    /\ all_events' = << >>
    /\ all_stats' = EmptyDict
    /\ idx' = 1
    /\ events' = << >>
    /\ evIdx' = 1
    /\ apiSent' = FALSE
    /\ sched' = [d \in 1 .. NumDates |-> Pending]
    /\ statsGot' = EmptyDict
    /\ sess' = TrackBatch(sess)
    /\ pc' = "loop"
    /\ UNCHANGED << rq, fetcher, bootstrap, stored >>

StartBatch == StartBatchOf(0 .. NumDates)

\* the date loop's body up to the statistics loop: fetch_scheduled_events,
\* extract_event_ids, all_events.extend(events)
FetchSchedule ==
    /\ pc = "loop"
    /\ idx <= settings.ndates
    /\ \E o \in MakeRequest(fetcher, ScheduleBodies(idx)) :
          LET evs == ExtractEventIds(o.result)
          IN  /\ fetcher' = o.f
              /\ sess' \in Histories(sess, fetcher, o)
              /\ events' = evs
              /\ all_events' = Extend(all_events, evs)
              /\ sched' = [sched EXCEPT ![idx] =
                              IF o.result.isNone
                              THEN [status |-> "failed", n |-> 0]
                              ELSE [status |-> "ok", n |-> Len(o.result.events)]]
              /\ IF settings.show_stats /\ evs /= << >>
                 THEN pc' = "stats" /\ evIdx' = 1 /\ idx' = idx
                 ELSE pc' = "loop" /\ evIdx' = evIdx /\ idx' = idx + 1
    /\ apiSent' = TRUE
    /\ UNCHANGED << rq, bootstrap, ui, last_fetch_time, clock, settings, all_stats,
                    stored, statsGot >>

\* one iteration of `for event in events`: fetch_event_statistics, and
\* all_stats[event['id']] = parse_statistics(stats_data) if stats_data
FetchStatistics ==
    /\ pc = "stats"
    /\ LET id == events[evIdx].id
       IN  \E o \in MakeRequest(fetcher, StatisticsBodies(id)) :
              /\ fetcher' = o.f
              /\ sess' \in Histories(sess, fetcher, o)
              /\ all_stats' = StoreStats(all_stats, id, o.result)
              /\ statsGot' = DictSet(statsGot, id,
                                 IF o.result.isNone THEN "failed"
                                 ELSE IF o.result.hasStatistics THEN "values"
                                 ELSE "nofield")
    /\ IF evIdx < Len(events)
       THEN pc' = "stats" /\ evIdx' = evIdx + 1 /\ idx' = idx
       ELSE pc' = "loop" /\ evIdx' = evIdx /\ idx' = idx + 1
    /\ UNCHANGED << rq, bootstrap, ui, last_fetch_time, clock, settings, events,
                    all_events, stored, apiSent, sched >>

\* after the loop: st.session_state.events = all_events; .stats = all_stats
Finish ==
    /\ pc = "loop"
    /\ idx > settings.ndates
    /\ stored' = [has |-> TRUE, events |-> all_events, stats |-> all_stats]
    /\ pc' = "done"
    /\ UNCHANGED << rq, fetcher, bootstrap, ui, last_fetch_time, clock, settings, idx,
                    events, evIdx, all_events, all_stats, apiSent, sched, statsGot, sess >>

(***************************************************************************)
(* Batch-level specification: a new session, and the first fetch of main   *)
(* over a date range, started by a click on Fetch Data                     *)
(***************************************************************************)
Next ==
    \/ InitSession \/ NoFetch \/ ClickFetch
    \/ StartBatch \/ FetchSchedule \/ FetchStatistics \/ Finish

Spec == Init /\ [][Next]_vars

(***************************************************************************)
(* Run-level specification: the successive script runs of one session,     *)
(* with auto refresh, each fetch over a range of at most one date.  A run  *)
(* that has started goes on to its end, and time passes; whether and when  *)
(* the user acts is up to the user.                                        *)
(***************************************************************************)
InitRuns ==
    /\ InitMain
    /\ sess = NoHistory(TRUE)
    /\ rq = StartRequest(NewFetcher)

StartShortBatch == StartBatchOf(0 .. 1)

RunStep ==
    \/ InitSession \/ NoFetch \/ AutoRerun \/ Restart
    \/ StartShortBatch \/ FetchSchedule \/ FetchStatistics \/ Finish

NextRuns == RunStep \/ Interact \/ Tick

SpecRuns == InitRuns /\ [][NextRuns]_vars /\ WF_vars(RunStep) /\ WF_vars(Tick)

(***************************************************************************)
(* Reading the log of a call                                               *)
(***************************************************************************)
GetIdx(log) == {i \in DOMAIN log : log[i].ev = "get"}

\* a 200 response whose body parsed
IsOk(e) == e.ev = "get" /\ e.status = "200"

\* the request that follows the one at position i; 0 when there is none
NextGetAfter(log, i) ==
    IF \E j \in GetIdx(log) : j > i
    THEN CHOOSE j \in GetIdx(log) : j > i /\ \A k \in GetIdx(log) : k > i => j <= k
    ELSE 0

\* time slept by the log entries strictly between positions i and j
RECURSIVE SleptBetween(_, _, _)
SleptBetween(log, i, j) ==
    IF i + 1 >= j THEN 0 ELSE log[i + 1].t + SleptBetween(log, i + 1, j)

\* the positions of entry `ev` about client c strictly between i and j
Between(log, i, j, ev, c) ==
    {k \in DOMAIN log : i < k /\ k < j /\ log[k].ev = ev /\ log[k].client = c}

(***************************************************************************)
(* Claims about _make_request (specification SpecRequest)                  *)
(***************************************************************************)
\* C1: a 429 response does not count against the retry budget: a call gives
\* up (returns None) only after max_retries attempts that were not answered
\* by a 429.
C1_RateLimitOutsideBudget ==
    (rq.done /\ rq.result.isNone) =>
        Cardinality({i \in GetIdx(rq.log) : rq.log[i].status /= "429"}) >= MaxRetries

\* C2: whenever a request is answered 403 and another request follows in the
\* same call, then between the two the old client is closed, a new client
\* is created and the homepage is visited on the new client, in this order,
\* and the following request is sent on the new client, not on the one that
\* received the 403.
C2_RefreshAfter403 ==
    \A i \in GetIdx(rq.log) :
        LET j == NextGetAfter(rq.log, i)
            c == rq.log[i].client
        IN  (rq.log[i].status = "403" /\ j /= 0) =>
              /\ rq.log[j].client = c + 1
              /\ \E x \in Between(rq.log, i, j, "close", c) :
                 \E y \in Between(rq.log, i, j, "new", c + 1) :
                 \E z \in Between(rq.log, i, j, "home", c + 1) : x < y /\ y < z

C2_Witness ==
    \E i \in GetIdx(rq.log) :
        rq.log[i].status = "403" /\ NextGetAfter(rq.log, i) /= 0

BackoffIdx(log) == {i \in DOMAIN log : log[i].ev = "sleep_backoff"}

C9_BackoffMonotone ==
    /\ \A i \in BackoffIdx(rq.log) :
           LET k == rq.log[i].attempt
               t == rq.log[i].t
           IN  /\ k \in 0 .. MaxRetries - 1
               /\ k = 0 => t \in (Delay + JitterFirstMin) .. (Delay + JitterFirstMax)
               /\ k > 0 => t \in (Delay * 2 ^ k + JitterRetryMin) ..
                                 (Delay * 2 ^ k + JitterRetryMax)
    /\ \A i, j \in BackoffIdx(rq.log) :
           rq.log[i].attempt < rq.log[j].attempt => rq.log[i].t <= rq.log[j].t

C9_Witness ==
    /\ rq.done
    /\ Cardinality(BackoffIdx(rq.log)) = MaxRetries
    /\ \A i \in GetIdx(rq.log) : rq.log[i].status = "neterr"
    /\ \E i \in BackoffIdx(rq.log) : rq.log[i].attempt = 0 /\ rq.log[i].t = Delay + JitterFirstMax
    /\ \E i \in BackoffIdx(rq.log) : rq.log[i].attempt = 1 /\ rq.log[i].t = 2 * Delay + JitterRetryMin

\* C10: after a 429 response carrying retry-after = R seconds (60 when the
\* header is absent) the time slept before the next request of the call is
\* exactly R seconds.
C10_SleepExactlyRetryAfter ==
    \A i \in GetIdx(rq.log) :
        LET j == NextGetAfter(rq.log, i)
        IN  (rq.log[i].status = "429" /\ rq.log[i].hdr /= RetryAfterBad /\ j /= 0) =>
              SleptBetween(rq.log, i, j) = RetryAfter(rq.log[i].hdr) * TicksPerSecond

(***************************************************************************)
(* Claims about the fetch loop of main (specification Spec)                *)
(***************************************************************************)
\* number of dates whose schedule fetch has returned
DatesDone == IF pc = "stats" THEN idx ELSE idx - 1

\* the rows the schedule payload of date d holds, none for a failed fetch
RowsOf(d) ==
    IF sched[d].status = "ok" THEN ScheduledEvents(d, sched[d].n) ELSE << >>

RECURSIVE RowsUpTo(_)
RowsUpTo(d) == IF d = 0 THEN << >> ELSE RowsUpTo(d - 1) \o RowsOf(d)

Failed(d) == sched[d].status = "failed"

\* C4: a date whose schedule fetch fails neither stops the loop nor discards
\* rows: at every point of the batch all_events holds exactly the rows of
\* the dates fetched so far that did not fail, and when the batch ends
\* every date of the range has been attempted and the stored event list
\* holds exactly the rows of the dates that did not fail.
C4_PartialFailureIsolation ==
    /\ pc \in {"loop", "stats", "done"} => all_events = RowsUpTo(DatesDone)
    /\ pc = "done" =>
          /\ \A d \in 1 .. settings.ndates : sched[d].status /= "pending"
          /\ stored.events = RowsUpTo(settings.ndates)
          /\ \A d \in 1 .. settings.ndates :
                Failed(d) => ~\E i \in DOMAIN stored.events : DateOf(stored.events[i].id) = d

C4_Witness ==
    /\ pc = "done"
    /\ settings.ndates = NumDates
    /\ Failed(1)
    /\ \A d \in 2 .. NumDates : sched[d].status = "ok" /\ sched[d].n = MaxEvents
    /\ Len(stored.events) = (NumDates - 1) * MaxEvents

\* what the stored output of a batch holds about date d
StoredForDate(d) ==
    LET OfDate(row) == DateOf(row.id) = d
        rows == SelectSeq(stored.events, OfDate)
    IN  [rows |-> rows,
         stats |-> [id \in {x \in DOMAIN stored.stats : DateOf(x) = d} |-> stored.stats[id]]]

\* C5: in the output of a finished batch a date whose schedule fetch failed
\* is recorded differently from a date that was fetched and had no events.
C5_FailedDateDistinguishable ==
    pc = "done" =>
        \A d1, d2 \in 1 .. settings.ndates :
            (Failed(d1) /\ sched[d2].status = "ok" /\ sched[d2].n = 0) =>
                StoredForDate(d1) /= StoredForDate(d2)

\* C6: the event list is ordered by date, and the rows of one date are in
\* the order of that date's schedule payload, during the batch and in the
\* stored result.
OrderedByDate(rows) ==
    \A i, j \in DOMAIN rows : i < j => DateOf(rows[i].id) <= DateOf(rows[j].id)

RowsOfDate(rows, d) ==
    LET OfDate(row) == DateOf(row.id) = d
    IN  SelectSeq(rows, OfDate)

C6_OrderedByDate ==
    /\ OrderedByDate(all_events)
    /\ OrderedByDate(stored.events)
    /\ pc \in {"loop", "stats", "done"} =>
          \A d \in 1 .. DatesDone : RowsOfDate(all_events, d) = RowsOf(d)
    /\ pc = "done" =>
          \A d \in 1 .. settings.ndates : RowsOfDate(stored.events, d) = RowsOf(d)

C6_Witness ==
    /\ pc = "done"
    /\ settings.ndates = NumDates
    /\ \A d \in 1 .. NumDates : sched[d].status = "ok" /\ sched[d].n = MaxEvents
    /\ Len(stored.events) = NumDates * MaxEvents

\* the statistic values recorded for an event: none when the event has no
\* entry or the entry is None
StatValues(stats, id) ==
    IF id \in DOMAIN stats /\ ~stats[id].isNone THEN stats[id].dict ELSE EmptyDict

\* the values of the period "ALL" of StatisticsOf(id), the last item of a key winning
ExpectedStats(id) ==
    [k \in {"Thrown180", "Average3Darts"} |->
        IF k = "Thrown180" THEN [home |-> id, away |-> 2] ELSE [home |-> 95, away |-> 90]]

\* C7: an event whose statistics fetch failed, or whose payload has no
\* 'statistics' field, stays in the event list with no statistic values;
\* the values recorded for the other events are those of their payloads;
\* and when the batch ends a statistics fetch has been made for every event
\* of every date.
C7_StatisticsFailureNonFatal ==
    /\ \A id \in DOMAIN statsGot :
          /\ \E i \in DOMAIN all_events : all_events[i].id = id
          /\ statsGot[id] \in {"failed", "nofield"} => StatValues(all_stats, id) = EmptyDict
          /\ statsGot[id] = "values" => StatValues(all_stats, id) = ExpectedStats(id)
    /\ (pc = "done" /\ settings.show_stats) =>
          /\ \A i \in DOMAIN stored.events : stored.events[i].id \in DOMAIN statsGot
          /\ stored.stats = all_stats

C7_Witness ==
    /\ pc = "done"
    /\ settings.show_stats
    /\ settings.ndates = NumDates
    /\ \E i, j, k \in DOMAIN stored.events :
          /\ i < j /\ j < k
          /\ statsGot[stored.events[i].id] = "values"
          /\ statsGot[stored.events[j].id] = "failed"
          /\ statsGot[stored.events[k].id] = "values"
          /\ DateOf(stored.events[i].id) = DateOf(stored.events[j].id)
          /\ DateOf(stored.events[j].id) < DateOf(stored.events[k].id)
    /\ \E i \in DOMAIN stored.events : statsGot[stored.events[i].id] = "nofield"

\* C8: when the bootstrap homepage visit returned False, no schedule or
\* statistics request is sent.
C8_SessionErrorFatal == bootstrap = "false" => ~apiSent

(***************************************************************************)
(* Claims about the session over the script runs (specification SpecRuns)  *)
(***************************************************************************)
\* C11: the session is established (new client plus homepage visit) once
\* when the fetcher is created, and afterwards only by a _make_request call
\* one of whose requests was answered 403: a call makes as many homepage
\* visits as clients and makes none unless it received a 403, and as long as
\* no request of the session has received a 403, over all dates, events and
\* successive batches, one client was made and one homepage visit occurred.
C11_SessionEstablishedOnce ==
    /\ \A x \in RequestOutcomes : x.clients = x.homes /\ (x.clients > 0 => x.saw403)
    /\ pc = "start" => sess.clients = "none" /\ sess.homes = "none"
    /\ pc /= "start" => sess.clients /= "none" /\ sess.homes /= "none"
    /\ ~sess.saw403 => sess.clients /= "many" /\ sess.homes /= "many"

\* a second batch with schedule and statistics requests has ended and no
\* request of the session has received a 403
C11_Witness ==
    /\ pc = "done"
    /\ sess.batches = "many"
    /\ ~sess.saw403
    /\ apiSent
    /\ statsGot /= EmptyDict

\* C12: every 403 is followed by a re-establishment of the session before
\* the next request: no schedule or statistics request is sent on a client
\* instance that has already received a 403.
C12_NoRequestOnForbiddenClient == ~sess.reused403

(***************************************************************************)
(* Claim about auto refresh (specification SpecRuns, whose fairness says   *)
(* that a script run goes on to its end and that time passes)              *)
(***************************************************************************)
\* C13: when a run finds auto refresh on and refresh_interval or more
\* elapsed since last_fetch_time, the script runs eventually perform a
\* fetch, which updates last_fetch_time (or the user turns auto refresh
\* off); the script does not re-run for ever without fetching.
C13_AutoRefreshFetches ==
    (pc = "idle" /\ RerunDue(ui, last_fetch_time, clock))
        ~> (pc = "loop" \/ ~ui.auto_refresh)

====
